---- MODULE Spec2Model ----
(***************************************************************************)
(* Model of src/app.py: the Flask handler run_foldseek (POST /foldseek)    *)
(* and the result-shaping function get_top_n_results.                      *)
(*                                                                         *)
(* Spec      : NumReqs concurrent /foldseek requests, each stepping        *)
(*             through the handler at its filesystem / subprocess calls.   *)
(* ShapeSpec : get_top_n_results applied to every results file and every   *)
(*             limit within the bounds.                                    *)
(***************************************************************************)
EXTENDS Integers, Sequences, FiniteSets

\* ------------------------------------------------------------------ bounds
NumReqs == 2      \* concurrent requests
MaxRows == 3      \* rows of a results table
MaxEvalue == 2    \* distinct numeric evalue values 1..MaxEvalue
MaxN == 4         \* requested limits 0..MaxN

\* ------------------------------------------------------- optional values
None == <<>>
Some(x) == <<x>>
Get(o) == o[1]

\* Python truthiness of data.get("query_pdb"): None and "" are falsy.
Truthy(o) == o # None /\ Get(o) # ""

\* --------------------------------------------- results file, evalue cells
\* The text of the evalue field of one line of results.tsv:
\* an empty field, text that is no number, or a number.
Missing == [kind |-> "missing", val |-> 0]
Text == [kind |-> "text", val |-> 0]
Num(k) == [kind |-> "num", val |-> k]
EvalueCells == {Missing, Text} \cup {Num(k) : k \in 1..MaxEvalue}

\* A float: NaN or a number.
NaN == [nan |-> TRUE, val |-> 0]
Float(k) == [nan |-> FALSE, val |-> k]

\* IEEE comparison as Python evaluates a <= b: false when either is NaN.
Leq(a, b) == ~a.nan /\ ~b.nan /\ a.val <= b.val

AbsentFile == [kind |-> "absent", rows |-> <<>>]
MalformedFile == [kind |-> "malformed", rows |-> <<>>]
Tsv(rows) == [kind |-> "tsv", rows |-> rows]

Tables == UNION {[1..k -> EvalueCells] : k \in 0..MaxRows}
Files == {AbsentFile, MalformedFile} \cup {Tsv(t) : t \in Tables}

\* --------------------------------------------------- get_top_n_results
\* pd.read_csv(tsv_path, sep='\t', names=headers, header=None):
\* raises on a missing file, on a file with no data and on a tokenizing
\* error; otherwise one record per line, in file order.  An empty field is
\* read as NaN (missing), anything else keeps its text.
ReadCsvRaises(file) ==
    \/ file.kind = "absent"
    \/ file.kind = "malformed"
    \/ file.kind = "tsv" /\ Len(file.rows) = 0

ReadCsvError(file) ==
    IF file.kind = "absent" THEN "FileNotFoundError"
    ELSE IF file.kind = "malformed" THEN "ParserError"
    ELSE "EmptyDataError"

ReadCsv(file) == [i \in 1..Len(file.rows) |-> [line |-> i, evalue |-> file.rows[i]]]

IsNotNa(row) == row.evalue.kind # "missing"

\* No dropna at all.
DropnaNothing(df) == df

\* df.dropna(subset=['evalue']): drops the rows whose evalue is missing.
DropnaEvalue(df) == SelectSeq(df, IsNotNa)

\* pd.to_numeric(df['evalue'], errors='coerce'): text that is no number
\* becomes NaN, the row stays.
ToNumeric(cell) == IF cell.kind = "num" THEN Float(cell.val) ELSE NaN
CoerceEvalue(df) == [i \in 1..Len(df) |-> [line |-> df[i].line, evalue |-> ToNumeric(df[i].evalue)]]

\* Stable ascending sort by evalue of rows whose evalue is a number.
RECURSIVE InsertByEvalue(_, _)
InsertByEvalue(row, s) ==
    IF Len(s) = 0 THEN <<row>>
    ELSE IF row.evalue.val < s[1].evalue.val THEN <<row>> \o s
    ELSE <<s[1]>> \o InsertByEvalue(row, Tail(s))

RECURSIVE SortByEvalue(_)
SortByEvalue(df) ==
    IF Len(df) = 0 THEN <<>>
    ELSE InsertByEvalue(df[Len(df)], SortByEvalue(SubSeq(df, 1, Len(df) - 1)))

IsNumber(row) == ~row.evalue.nan
IsNaNRow(row) == row.evalue.nan

Min(a, b) == IF a <= b THEN a ELSE b

\* df.nsmallest(top_n, 'evalue') (keep='first'): nothing for n <= 0;
\* otherwise the rows with a number, ascending, followed by the NaN rows
\* in frame order, cut to the first n.
Nsmallest(df, n) ==
    IF n <= 0 THEN <<>>
    ELSE LET all == SortByEvalue(SelectSeq(df, IsNumber)) \o SelectSeq(df, IsNaNRow)
         IN SubSeq(all, 1, Min(n, Len(all)))

ErrorPayload(e) ==
    [kind |-> "error", error |-> <<"Error parsing results: ", e>>, results |-> <<>>]

\* The body of the try block of get_top_n_results, once read_csv succeeded.
TopNPayload(file, top_n) ==
    LET df == CoerceEvalue(DropnaEvalue(ReadCsv(file)))
    IN [kind |-> "ok", total_matches |-> Len(df), top_n |-> top_n,
        results |-> Nsmallest(df, top_n)]

\* get_top_n_results without its except clause: read_csv's exception leaves it.
GetTopNResultsNoExcept(file, top_n) ==
    IF ReadCsvRaises(file)
    THEN [kind |-> "raise", type |-> ReadCsvError(file)]
    ELSE [kind |-> "return", value |-> TopNPayload(file, top_n)]

\* get_top_n_results(tsv_path, top_n): how the call ends.  Every exception
\* of the try block is caught and turned into the error payload.
GetTopNResults(file, top_n) ==
    IF ReadCsvRaises(file)
    THEN [kind |-> "return", value |-> ErrorPayload(ReadCsvError(file))]
    ELSE [kind |-> "return", value |-> TopNPayload(file, top_n)]

\* ------------------------------------------------------------ requests
Reqs == 1..NumReqs

\* The JSON bodies a client can send: query_pdb absent, empty or a
\* structure; n absent/null or a number; an optional database key.
QueryPdbValues == {None, Some(""), Some("ATOM")}
NValues == {None, Some(1)}
DatabaseValues == {None, Some("nosuchdb")}

NotJson == [is_json |-> FALSE, query_pdb |-> None, n |-> None, database |-> None]
JsonBodies == [is_json : {TRUE}, query_pdb : QueryPdbValues, n : NValues,
               database : DatabaseValues]
Bodies == {NotJson} \cup JsonBodies

\* What the external binary can do: exit 0 having left any results file
\* (or none), or exit non-zero with text on its error stream.
StderrValues == {"db not found"}
ProcessOutputs == {AbsentFile, MalformedFile, Tsv(<<>>), Tsv(<<Num(1)>>)}
ProcessRuns ==
    [returncode : {0}, stderr : {""}, output : ProcessOutputs]
    \cup [returncode : {1}, stderr : StderrValues, output : {AbsentFile}]

\* -------------------------------------------------------------- state
VARIABLES
    pc,        \* where each request's handler stands
    data,      \* request.get_json() of each request
    temp_dir,  \* the handler's local temp_dir
    fs,        \* the temporary directories on disk
    proc,      \* the subprocess.run call of each request: its command, its exit
               \* status and error text, and the results file the binary left
    outcome,   \* how the handler ends: a returned response or a raised exception
    tsv,       \* ShapeSpec: the file given to get_top_n_results
    top_n,     \* ShapeSpec: the limit given to get_top_n_results
    shaped     \* ShapeSpec: what get_top_n_results returned

vars == <<pc, data, temp_dir, fs, proc, outcome, tsv, top_n, shaped>>
handlerVars == <<pc, data, temp_dir, fs, proc, outcome>>
shapeVars == <<tsv, top_n, shaped>>

\* tempfile.mkdtemp() names: as many as there can be directories at once.
DirNames == 1..NumReqs

NoDir == [exists |-> FALSE, creator |-> 0, query |-> None, results |-> None]
NewDir(r) == [exists |-> TRUE, creator |-> r, query |-> None, results |-> None]

NoProc == [runs |-> 0, database_path |-> None, returncode |-> None, stderr |-> None,
           output |-> None]
NoOutcome == [kind |-> "none"]
NotCalled == [kind |-> "none"]

Return(status, body) == [kind |-> "return", status |-> status, body |-> body]
Raise(type, msg) == [kind |-> "raise", type |-> type, msg |-> msg]

HandlerInit ==
    /\ pc = [r \in Reqs |-> "idle"]
    /\ data = [r \in Reqs |-> NotJson]
    /\ temp_dir = [r \in Reqs |-> None]
    /\ fs = [d \in DirNames |-> NoDir]
    /\ proc = [r \in Reqs |-> NoProc]
    /\ outcome = [r \in Reqs |-> NoOutcome]

Init ==
    /\ HandlerInit
    /\ tsv = AbsentFile
    /\ top_n = 0
    /\ shaped = NotCalled

\* ------------------------------------------------------- run_foldseek
\* A validation that checks query_pdb alone.
MissingRequiredQueryOnly(body) == ~Truthy(body.query_pdb)

\* `if not query_pdb or n is None`
MissingRequired(body) == ~Truthy(body.query_pdb) \/ body.n = None

JsonFormatMsg == "Request must be in JSON format"
MissingMsg == "Missing 'query_pdb' or 'n' in request body"

\* Lines 33-45: the request arrives and is validated.
Validate(r) ==
    /\ pc[r] = "idle"
    /\ \E body \in Bodies :
        /\ data' = [data EXCEPT ![r] = body]
        /\ IF ~body.is_json
           THEN /\ outcome' = [outcome EXCEPT ![r] = Return(400, [error |-> <<JsonFormatMsg>>])]
                /\ pc' = [pc EXCEPT ![r] = "done"]
           ELSE IF MissingRequired(body)
           THEN /\ outcome' = [outcome EXCEPT ![r] = Return(400, [error |-> <<MissingMsg>>])]
                /\ pc' = [pc EXCEPT ![r] = "done"]
           ELSE /\ outcome' = outcome
                /\ pc' = [pc EXCEPT ![r] = "mkdtemp"]
    /\ UNCHANGED <<temp_dir, fs, proc, shapeVars>>

\* A scratch directory under a name that may be in use already.
MkdtempAnyName(disk) == DirNames

\* tempfile.mkdtemp() creates a directory under a name no directory has.
MkdtempNames(disk) == {d \in DirNames : ~disk[d].exists}

\* Line 48.
Mkdtemp(r) ==
    /\ pc[r] = "mkdtemp"
    /\ \E d \in MkdtempNames(fs) :
        /\ fs' = [fs EXCEPT ![d] = NewDir(r)]
        /\ temp_dir' = [temp_dir EXCEPT ![r] = Some(d)]
    /\ pc' = [pc EXCEPT ![r] = "write"]
    /\ UNCHANGED <<data, proc, outcome, shapeVars>>

\* Lines 52-60: the query is written to <temp_dir>/query.pdb, or the
\* write raises (no space, directory gone) and the finally clause runs.
WriteQuery(r) ==
    /\ pc[r] = "write"
    /\ LET d == Get(temp_dir[r]) IN
        \/ /\ fs[d].exists
           /\ fs' = [fs EXCEPT ![d].query = Some([writer |-> r, text |-> Get(data[r].query_pdb)])]
           /\ pc' = [pc EXCEPT ![r] = "run"]
           /\ outcome' = outcome
        \/ /\ fs' = fs
           /\ pc' = [pc EXCEPT ![r] = "finally"]
           /\ outcome' = [outcome EXCEPT ![r] = Raise("OSError", <<"query.pdb">>)]
    /\ UNCHANGED <<data, temp_dir, proc, shapeVars>>

\* Line 68: the database argument of the command.
DatabasePath == "/home/ec2-user/databases/afdb"
\* A command whose database argument comes from the request.
CommandDatabaseFromBody(body) ==
    IF body.database = None THEN DatabasePath ELSE Get(body.database)

CommandDatabase(body) == DatabasePath

\* subprocess.run without check=True: the exit status is not looked at.
AfterRunNoCheck(returncode) == "shape"

\* subprocess.run(..., check=True): exit status 0 goes on to
\* get_top_n_results, any other raises CalledProcessError.
AfterRun(returncode) == IF returncode = 0 THEN "shape" ELSE "finally"

\* Lines 64-84 and 97-103: the binary runs once, to completion.
RunProcess(r) ==
    /\ pc[r] = "run"
    /\ \E run \in ProcessRuns :
        LET d == Get(temp_dir[r]) IN
        /\ proc' = [proc EXCEPT ![r] =
                [runs |-> @.runs + 1, database_path |-> Some(CommandDatabase(data[r])),
                 returncode |-> Some(run.returncode), stderr |-> Some(run.stderr),
                 output |-> Some(run.output)]]
        /\ fs' = IF fs[d].exists /\ run.output # AbsentFile
                 THEN [fs EXCEPT ![d].results = Some([producer |-> r, file |-> run.output])]
                 ELSE fs
        /\ pc' = [pc EXCEPT ![r] = AfterRun(run.returncode)]
        /\ outcome' = IF AfterRun(run.returncode) = "shape" THEN outcome
                      ELSE [outcome EXCEPT ![r] =
                                Raise("RuntimeError", <<"FoldSeek execution failed: ", run.stderr>>)]
    /\ UNCHANGED <<data, temp_dir, shapeVars>>

\* Lines 79-84: the binary cannot be started; subprocess.run raises an
\* OSError, which no except clause catches, and the finally clause runs.
RunFails(r) ==
    /\ pc[r] = "run"
    /\ outcome' = [outcome EXCEPT ![r] = Raise("OSError", <<"foldseek">>)]
    /\ pc' = [pc EXCEPT ![r] = "finally"]
    /\ UNCHANGED <<data, temp_dir, fs, proc, shapeVars>>

\* What is at <temp_dir>/results.tsv.
ResultsFile(disk, d) ==
    IF disk[d].exists /\ disk[d].results # None THEN Get(disk[d].results).file ELSE AbsentFile

\* Lines 88-95: results = get_top_n_results(results_path, n); return results
Shape(r) ==
    /\ pc[r] = "shape"
    /\ LET call == GetTopNResults(ResultsFile(fs, Get(temp_dir[r])), Get(data[r].n)) IN
        outcome' = [outcome EXCEPT ![r] =
            IF call.kind = "return" THEN Return(200, call.value)
            ELSE Raise(call.type, <<>>)]
    /\ pc' = [pc EXCEPT ![r] = "finally"]
    /\ UNCHANGED <<data, temp_dir, fs, proc, shapeVars>>

\* A finally clause that leaves the directory.
RmtreeNothing(disk, d) == disk

\* shutil.rmtree(temp_dir)
Rmtree(disk, d) == [disk EXCEPT ![d] = NoDir]

\* Lines 104-106: the finally clause, then the handler ends.
Finally(r) ==
    /\ pc[r] = "finally"
    /\ fs' = Rmtree(fs, Get(temp_dir[r]))
    /\ temp_dir' = [temp_dir EXCEPT ![r] = None]
    /\ pc' = [pc EXCEPT ![r] = "done"]
    /\ UNCHANGED <<data, proc, outcome, shapeVars>>

Next ==
    \E r \in Reqs :
        \/ Validate(r)
        \/ Mkdtemp(r)
        \/ WriteQuery(r)
        \/ RunProcess(r)
        \/ RunFails(r)
        \/ Shape(r)
        \/ Finally(r)

Spec == Init /\ [][Next]_vars

\* ------------------------------------------- get_top_n_results alone
ShapeInit ==
    /\ HandlerInit
    /\ tsv \in Files
    /\ top_n \in 0..MaxN
    /\ shaped = NotCalled

Call ==
    /\ shaped = NotCalled
    /\ shaped' = GetTopNResults(tsv, top_n)
    /\ UNCHANGED <<tsv, top_n, handlerVars>>

ShapeNext == Call

ShapeSpec == ShapeInit /\ [][ShapeNext]_vars

\* ===================================================== claims, under Spec
OwnDirs(r) == {d \in DirNames : fs[d].exists /\ fs[d].creator = r}
ExitedNonZero(r) == proc[r].returncode # None /\ Get(proc[r].returncode) # 0
ExitedZero(r) == proc[r].returncode = Some(0)

\* C1: once the handler of a validated request has finished, on any exit
\* path, no scratch directory created for that request exists.
C1_ScratchRemoved ==
    \A r \in Reqs : pc[r] = "done" => OwnDirs(r) = {}

\* Two finished requests that had a scratch directory: one whose query
\* write raised, one whose binary exited non-zero.
C1_Witness ==
    \E r, s \in Reqs :
        /\ pc[r] = "done" /\ outcome[r] = Raise("OSError", <<"query.pdb">>)
        /\ pc[s] = "done" /\ ExitedNonZero(s)
        /\ OwnDirs(r) = {} /\ OwnDirs(s) = {}

\* C2: after a non-zero exit the handler returns a response that indicates
\* failure and carries the captured stderr text; no exception leaves it.
C2_FailureResponse ==
    \A r \in Reqs :
        (pc[r] = "done" /\ ExitedNonZero(r)) =>
            /\ outcome[r].kind = "return"
            /\ outcome[r].status >= 400
            /\ \E i \in DOMAIN outcome[r].body.error :
                   outcome[r].body.error[i] = Get(proc[r].stderr)

\* A body without a usable query_pdb or without n.
C3_LacksField(body) == body.query_pdb \in {None, Some("")} \/ body.n = None

\* C3: a JSON request lacking a required field ends at once with HTTP 400
\* and the message naming 'query_pdb' and 'n'; no scratch directory is
\* created for it and the binary is never run.
C3_MissingField ==
    \A r \in Reqs :
        (pc[r] # "idle" /\ data[r].is_json /\ C3_LacksField(data[r])) =>
            /\ pc[r] = "done"
            /\ outcome[r] = Return(400, [error |-> <<"Missing 'query_pdb' or 'n' in request body">>])
            /\ temp_dir[r] = None
            /\ OwnDirs(r) = {}
            /\ proc[r].runs = 0

\* A request with n null while another request has a directory and has
\* run the binary: the rejected one has neither.
C3_Witness ==
    \E r, s \in Reqs :
        /\ pc[r] = "done" /\ data[r].is_json
        /\ data[r].query_pdb = Some("ATOM") /\ data[r].n = None
        /\ outcome[r].status = 400
        /\ pc[s] = "shape" /\ OwnDirs(s) # {}

\* The identifiers a database selector would accept.
KnownDatabases == {"afdb"}
UnknownDatabase(r) ==
    pc[r] # "idle" /\ data[r].database # None /\ Get(data[r].database) \notin KnownDatabases

C8_Unreadable(file) == file \in {AbsentFile, MalformedFile, Tsv(<<>>)}

InFlight(r) == pc[r] \in {"write", "run", "shape", "finally"}

\* C9: every request between mkdtemp and rmtree holds a directory that
\* exists, that it created itself and that no other such request holds;
\* the query file and the results file in it are its own.
C9_Isolation ==
    \A r \in Reqs :
        InFlight(r) =>
            /\ temp_dir[r] # None
            /\ LET dir == fs[Get(temp_dir[r])] IN
                /\ dir.exists
                /\ dir.creator = r
                /\ dir.query # None => Get(dir.query).writer = r
                /\ dir.results # None => Get(dir.results).producer = r
                /\ pc[r] \in {"run", "shape"} => dir.query = Some([writer |-> r, text |-> Get(data[r].query_pdb)])
                /\ pc[r] = "shape" => ResultsFile(fs, Get(temp_dir[r])) = Get(proc[r].output)
            /\ \A s \in Reqs \ {r} : InFlight(s) => temp_dir[s] # temp_dir[r]

\* One request is about to read its results file while another, whose
\* binary has run too, is about to remove its directory.
C9_Witness ==
    \E r, s \in Reqs :
        /\ r # s
        /\ pc[r] = "shape" /\ fs[Get(temp_dir[r])].results # None
        /\ pc[s] = "finally" /\ proc[s].runs = 1

\* C10: the binary runs at most once per request; after a non-zero exit
\* the request only cleans up and ends with the failure, and
\* get_top_n_results is reached, and its payload returned, only after exit 0.
C10_SingleRun ==
    \A r \in Reqs :
        /\ proc[r].runs <= 1
        /\ ExitedNonZero(r) =>
            /\ pc[r] \in {"finally", "done"}
            /\ outcome[r].kind = "raise"
        /\ (pc[r] = "shape" \/ (outcome[r].kind = "return" /\ outcome[r].status = 200)) =>
            /\ proc[r].runs = 1
            /\ ExitedZero(r)

\* One request ended by a non-zero exit, another shaped after exit 0.
C10_Witness ==
    \E r, s \in Reqs :
        /\ pc[r] = "done" /\ ExitedNonZero(r) /\ proc[r].runs = 1
        /\ pc[s] = "done" /\ outcome[s].kind = "return" /\ outcome[s].status = 200

\* ================================================ claims, under ShapeSpec
Called == shaped # NotCalled
Payload == shaped.value
NumericLines == {i \in DOMAIN tsv.rows : tsv.rows[i].kind = "num"}
PresentLines == {i \in DOMAIN tsv.rows : tsv.rows[i].kind # "missing"}
ResultLines == {Payload.results[j].line : j \in DOMAIN Payload.results}

\* C5: `results` is ascending by evalue (each adjacent pair satisfies
\* evalue[i] <= evalue[i+1]) and no longer than the requested limit.
C5_SortedAndBounded ==
    Called =>
        /\ Len(Payload.results) <= top_n
        /\ \A i \in 1..(Len(Payload.results) - 1) :
               Leq(Payload.results[i].evalue, Payload.results[i + 1].evalue)

\* C6: total_matches counts exactly the rows whose evalue is a number, and
\* only such rows are in `results`.
C6_OnlyCoercibleCounted ==
    (Called /\ Payload.kind = "ok") =>
        /\ Payload.total_matches = Cardinality(NumericLines)
        /\ ResultLines \subseteq NumericLines

\* C7 as stated: a table (a results file with at least one line, which
\* read_csv parses) with fewer rows than top_n comes back whole, each row
\* once, and total_matches is its number of rows.
C7_AllRowsReturned ==
    (Called /\ tsv.kind = "tsv" /\ Len(tsv.rows) > 0 /\ Len(tsv.rows) < top_n) =>
        /\ Payload.kind = "ok"
        /\ Payload.total_matches = Len(tsv.rows)
        /\ Len(Payload.results) = Len(tsv.rows)
        /\ ResultLines = DOMAIN tsv.rows

\* C7 as amended: a table with fewer rows than top_n comes back without
\* the rows whose evalue field is empty (dropna): every other
\* row is in `results` exactly once, nothing else is, and total_matches is
\* the number of those rows.
C7_PresentRowsReturned ==
    (Called /\ tsv.kind = "tsv" /\ Len(tsv.rows) > 0 /\ Len(tsv.rows) < top_n) =>
        /\ Payload.kind = "ok"
        /\ Payload.total_matches = Cardinality(PresentLines)
        /\ Len(Payload.results) = Cardinality(PresentLines)
        /\ ResultLines = PresentLines

\* A table of three rows, one of them without evalue, asked for more.
C7_Witness ==
    /\ Called
    /\ tsv.kind = "tsv" /\ Len(tsv.rows) = 3 /\ top_n > 3
    /\ Cardinality(PresentLines) = 2
    /\ Len(Payload.results) = 2

====
